---- MODULE Spec2Model ----
\* Model of software/contrib/strange_attractor.py (EuroPi "Strange Attractor").
\*
\* Numbers.  The script computes with floats; here every real quantity is a
\* fixed-point integer counting FP-ths (x = 1.05 is 1050), products and
\* quotients of two reals are rescaled by FP and rounded towards minus
\* infinity.  The tick period is kept in PU-ths of a millisecond, which makes
\* the knob mapping of update_speed exact for every integer knob reading.
EXTENDS Integers, Sequences, FiniteSets, TLC

\* ------------------------------------------------------------------ bounds
\* iterations of estimate_ranges (the script's default is 100000)
EstimateSteps == 3
\* the clock stops advancing at MaxTime (ms)
MaxTime == 35
\* number of button / digital-input edges delivered in one run of Spec
MaxEvents == 2
\* how far outside 0..100 (speed) and 0..40 (threshold) a raw reading may lie
MaxExcess == 3
\* the coordinates a model is stepped from range over 2 * MaxCoord + 1 values
MaxCoord == 2

\* --------------------------------------------------------------- constants
MAX_OUTPUT == 5
\* fixed-point unit of the reals
FP == 1000
\* period unit: PU-ths of a millisecond
PU == 5
\* press duration (ms) the handlers compare against
LONG_PRESS == 300
\* number of steps of knob 2
THRESHOLD_STEPS == 41
\* len(get_attractors())
NumAttractors == 4

Models == 0 .. (NumAttractors - 1)
\* "no model" / "attribute not set yet"
NoModel == 0 - 1

\* ---------------------------------------------------------- real arithmetic
Abs(v) == IF v < 0 THEN -v ELSE v
Max(u, v) == IF u > v THEN u ELSE v
Min(u, v) == IF u < v THEN u ELSE v
\* product and quotient of two fixed-point reals
Mul(u, v) == (u * v) \div FP
Div(u, v) == (u * FP) \div v
\* a float literal n/d
Real(n, d) == (n * FP) \div d
\* math.floor of a fixed-point real, as an integer
floor(v) == v \div FP

\* --------------------------------------------------------------- Attractor
\* Attractor.__init__
Attractor(point, dt, name) ==
    [ name |-> name, initial_state |-> point, dt |-> dt,
      x |-> point[1], y |-> point[2], z |-> point[3],
      x_min |-> point[1], y_min |-> point[2], z_min |-> point[3],
      x_max |-> point[1], y_max |-> point[2], z_max |-> point[3],
      x_range |-> Real(100, 1), y_range |-> Real(100, 1), z_range |-> Real(100, 1) ]

LorenzPoint == << Real(0, 1), Real(1, 1), Real(105, 100) >>
PanXuZhouPoint == << Real(1, 1), Real(1, 1), Real(1, 1) >>
RosslerPoint == << Real(1, 10), Real(0, 1), Real(-1, 10) >>
RikitakePoint == << Real(1, 10), Real(0, 1), Real(-1, 10) >>
Origin == << 0, 0, 0 >>

Lorenz(point) == Attractor(point, Real(1, 100), "Lorenz")
PanXuZhou(point) == Attractor(point, Real(1, 100), "Pan-Xu-Zhou")
Rossler(point) == Attractor(point, Real(1, 100), "Rossler")
Rikitake(point) == Attractor(point, Real(1, 100), "Rikitake")

\* the three coordinates advanced by the derivatives, all taken before the step
Advance(att, x_dot, y_dot, z_dot) ==
    [ att EXCEPT !.x = att.x + Mul(x_dot, att.dt),
                 !.y = att.y + Mul(y_dot, att.dt),
                 !.z = att.z + Mul(z_dot, att.dt) ]

\* Lorenz.step updating x, y and z one after the other, each derivative taken
\* from the coordinates as updated so far
LorenzStep_in_place(att) ==
    LET s == Real(10, 1)
        r == Real(28, 1)
        b == Real(2667, 1000)
        x1 == att.x + Mul(Mul(s, att.y - att.x), att.dt)
        y1 == att.y + Mul(Mul(r, x1) - att.y - Mul(x1, att.z), att.dt)
        z1 == att.z + Mul(Mul(x1, y1) - Mul(b, att.z), att.dt)
    IN  [ att EXCEPT !.x = x1, !.y = y1, !.z = z1 ]

\* Lorenz.step, s = 10, r = 28, b = 2.667
LorenzStep(att) ==
    LET s == Real(10, 1)
        r == Real(28, 1)
        b == Real(2667, 1000)
        x_dot == Mul(s, att.y - att.x)
        y_dot == Mul(r, att.x) - att.y - Mul(att.x, att.z)
        z_dot == Mul(att.x, att.y) - Mul(b, att.z)
    IN  Advance(att, x_dot, y_dot, z_dot)

\* PanXuZhou.step, a = 10, b = 2.667, c = 16
PanXuZhouStep(att) ==
    LET pa == Real(10, 1)
        pb == Real(2667, 1000)
        pc0 == Real(16, 1)
        x_dot == Mul(pa, att.y - att.x)
        y_dot == Mul(pc0, att.x) - Mul(att.x, att.z)
        z_dot == Mul(att.x, att.y) - Mul(pb, att.z)
    IN  Advance(att, x_dot, y_dot, z_dot)

\* Rossler.step, a = 0.13, b = 0.2, c = 6.5
RosslerStep(att) ==
    LET pa == Real(13, 100)
        pb == Real(2, 10)
        pc0 == Real(65, 10)
        x_dot == -(att.y + att.z)
        y_dot == att.x + Mul(pa, att.y)
        z_dot == pb + Mul(att.z, att.x - pc0)
    IN  Advance(att, x_dot, y_dot, z_dot)

\* Rikitake.step, a = 5, mu = 2
RikitakeStep(att) ==
    LET pa == Real(5, 1)
        mu == Real(2, 1)
        x_dot == -Mul(mu, att.x) + Mul(att.z, att.y)
        y_dot == -Mul(mu, att.y) + Mul(att.x, att.z - pa)
        z_dot == Real(1, 1) - Mul(att.x, att.y)
    IN  Advance(att, x_dot, y_dot, z_dot)

\* att.step(): dispatch on the class of the object
step(att) ==
    CASE att.name = "Lorenz" -> LorenzStep(att)
      [] att.name = "Pan-Xu-Zhou" -> PanXuZhouStep(att)
      [] att.name = "Rossler" -> RosslerStep(att)
      [] att.name = "Rikitake" -> RikitakeStep(att)
      [] OTHER -> att

\* the loop body of estimate_ranges taking max and min before the step
TrackBounds_before_step(att) ==
    LET t == [ att EXCEPT !.x_max = Max(att.x, att.x_max),
                          !.y_max = Max(att.y, att.y_max),
                          !.z_max = Max(att.z, att.z_max),
                          !.x_min = Min(att.x, att.x_min),
                          !.y_min = Min(att.y, att.y_min),
                          !.z_min = Min(att.z, att.z_min) ]
    IN  step(t)

\* one iteration of the loop of estimate_ranges
TrackBounds(att) ==
    LET s == step(att)
    IN  [ s EXCEPT !.x_max = Max(s.x, s.x_max), !.y_max = Max(s.y, s.y_max),
                   !.z_max = Max(s.z, s.z_max), !.x_min = Min(s.x, s.x_min),
                   !.y_min = Min(s.y, s.y_min), !.z_min = Min(s.z, s.z_min) ]

RECURSIVE RunSteps(_, _)
RunSteps(att, n) == IF n = 0 THEN att ELSE RunSteps(TrackBounds(att), n - 1)

\* estimate_ranges without its reset to the initial parameters
estimate_ranges_no_reset(att, steps) ==
    LET r == RunSteps(att, steps)
    IN  [ r EXCEPT !.x_range = r.x_max - r.x_min,
                   !.y_range = r.y_max - r.y_min,
                   !.z_range = r.z_max - r.z_min ]

\* Attractor.estimate_ranges
estimate_ranges(att, steps) ==
    LET r == RunSteps(att, steps)
    IN  [ r EXCEPT !.x_range = r.x_max - r.x_min,
                   !.y_range = r.y_max - r.y_min,
                   !.z_range = r.z_max - r.z_min,
                   !.x = r.initial_state[1],
                   !.y = r.initial_state[2],
                   !.z = r.initial_state[3] ]

\* the division of x_scaled / y_scaled / z_scaled raises ZeroDivisionError
\* when the range is 0
Raises(att) == att.x_range = 0 \/ att.y_range = 0 \/ att.z_range = 0
x_scaled(att) == Div(Mul(Real(100, 1), att.x - att.x_min), att.x_range)
y_scaled(att) == Div(Mul(Real(100, 1), att.y - att.y_min), att.y_range)
z_scaled(att) == Div(Mul(Real(100, 1), att.z - att.z_min), att.z_range)

\* get_attractors()
get_attractors ==
    [ i \in Models |->
        CASE i = 0 -> Lorenz(LorenzPoint)
          [] i = 1 -> PanXuZhou(PanXuZhouPoint)
          [] i = 2 -> Rikitake(RikitakePoint)
          [] OTHER -> Rossler(RosslerPoint) ]

\* ------------------------------------------------------------ environment
\* values k1.read_position() returns in a run of the whole program
K1Values == {50, 100}
\* values k2.read_position(steps=41) returns in a run of the whole program
K2Values == {0, 20}
\* raw readings, in and out of the normalized domain
K1Raw == (0 - MaxExcess) .. (100 + MaxExcess)
K2Raw == (0 - MaxExcess) .. (THRESHOLD_STEPS - 1 + MaxExcess)
\* ticks_diff(ticks_ms(), b.last_pressed()) seen by a release handler
PressDurations == {LONG_PRESS - 1, LONG_PRESS, LONG_PRESS + 1}
\* how far ticks_ms() may have moved between two readings of it
ClockDeltas == {0, 5}
\* initial points a caller may construct the four models with
PointsOf(i) ==
    CASE i = 0 -> {LorenzPoint, Origin}
      [] i = 1 -> {PanXuZhouPoint, Origin}
      [] i = 2 -> {RikitakePoint}
      [] OTHER -> {RosslerPoint}

\* ------------------------------------------------------------------- state
VARIABLES
    attractors,          \* self.attractors: index -> Attractor object
    selected_attractor,  \* self.selected_attractor
    a,                   \* self.a, as the index of the object it refers to
    checkpoint,          \* self.checkpoint (ms)
    period,              \* self.period (PU-ths of a ms)
    range,               \* self.range
    threshold,           \* self.threshold
    freeze,              \* self.freeze
    show_detail,         \* self.show_detail
    gate4, gate5, gate6, \* self.gate4 .. self.gate6
    cv1, cv2, cv3,       \* last voltage written to cv1 .. cv3 (fixed point)
    cv4, cv5, cv6,       \* last value written to cv4 .. cv6
    oled,                \* what the display shows
    k1,                  \* last value k1.read_position() returned
    now,                 \* last value ticks_ms() returned
    steps,               \* the iteration count estimate_ranges is run with
    pc,                  \* position of the main thread (__init__, then main)
    ci,                  \* index of the for loop of __init__
    hpc,                 \* position of the edge handler being run, or "idle"
    hd,                  \* press duration the running handler measured
    nev,                 \* edges delivered so far
    stepped,             \* model this tick has stepped, NoModel if none
    readFrom,            \* models whose coordinates this tick's outputs read
    calm,                \* ticks begun since a button or the threshold changed
    fstate,              \* "run", "frozen" (since a rising edge), "thawed"
                         \* (since the falling edge), "resumed" (stepped since)
    fz,                  \* coordinates of every model at the rising edge
    taken,               \* steps each model has taken since its calibration
    rc                   \* the handlers of b1 and b2 when each runs in a
                         \* context of its own: their positions, self.range
                         \* when the first of them began, and which have begun

outs == << cv1, cv2, cv3, cv4, cv5, cv6 >>
gates == << gate4, gate5, gate6 >>
knobs == << period, threshold, k1 >>
ctl == << selected_attractor, a, range, freeze, show_detail >>
hvars == << hpc, hd, rc >>
hist == << stepped, readFrom, calm, fstate, fz, taken >>
vars == << attractors, ctl, checkpoint, knobs, gates, outs, oled, now, steps,
           pc, ci, hvars, nev, hist >>

Coords(att) == << att.x, att.y, att.z >>
AllCoords(atts) == [ i \in Models |-> Coords(atts[i]) ]

\* no handler of b1 or b2 is running in a context of its own
NoRace == [ b1 |-> "idle", b2 |-> "idle", base |-> 0, ran |-> {} ]

\* the handlers registered before the calibration loop instead of after it
Running_from_start == pc # "ZeroDivisionError"

\* the handlers are registered at the end of __init__
Running == pc \notin {"cal_msg", "cal_est", "select", "ZeroDivisionError"}

\* ---------------------------------------------------------------- __init__
\* state before StrangeAttractor(get_attractors()) runs
StartWith(atts, n) ==
    /\ attractors = atts
    /\ steps = n
    /\ selected_attractor = NoModel /\ a = NoModel
    /\ checkpoint = 0 /\ period = 0 /\ range = 0 /\ threshold = 0
    /\ freeze = FALSE /\ show_detail = FALSE
    /\ gate4 = FALSE /\ gate5 = FALSE /\ gate6 = FALSE
    /\ cv1 = 0 /\ cv2 = 0 /\ cv3 = 0
    /\ cv4 = FALSE /\ cv5 = FALSE /\ cv6 = FALSE
    /\ oled = << "blank" >>
    /\ k1 = NoModel /\ now = 0
    /\ pc = "cal_msg" /\ ci = 0
    /\ hpc = "idle" /\ hd = 0 /\ nev = 0 /\ rc = NoRace
    /\ stepped = NoModel /\ readFrom = {} /\ calm = 0
    /\ fstate = "run" /\ fz = << >> /\ taken = [ i \in Models |-> 0 ]

Init == StartWith(get_attractors, EstimateSteps)

\* for att in self.attractors: self.initialise_message(att.name)
InitialiseMessage ==
    /\ pc = "cal_msg"
    /\ oled' = << "Initialising...", attractors[ci].name >>
    /\ pc' = "cal_est"
    /\ UNCHANGED << attractors, ctl, checkpoint, knobs, gates, outs, now, steps,
                    ci, hvars, nev, hist >>

\* att.estimate_ranges(); self.done_message(); next att
EstimateRanges ==
    /\ pc = "cal_est"
    /\ attractors' = [ attractors EXCEPT ![ci] = estimate_ranges(@, steps) ]
    /\ oled' = << "Done" >>
    /\ ci' = ci + 1
    /\ pc' = IF ci + 1 = NumAttractors THEN "select" ELSE "cal_msg"
    /\ UNCHANGED << ctl, checkpoint, knobs, gates, outs, now, steps, hvars, nev,
                    hist >>

\* the attributes __init__ sets once the model with index i is chosen
Constructed(i) ==
    /\ selected_attractor = i /\ a = i
    /\ checkpoint = 0
    /\ period = 100 * PU
    /\ range = MAX_OUTPUT
    /\ threshold = 20
    /\ freeze = FALSE
    /\ show_detail = TRUE

\* choice(range(0, len(self.attractors))), the initial attributes, and the
\* registration of the four handlers
Construct ==
    /\ pc = "select"
    /\ \E i \in Models :
         /\ selected_attractor' = i /\ a' = i
         /\ checkpoint' = 0
         /\ period' = 100 * PU
         /\ range' = MAX_OUTPUT
         /\ threshold' = 20
         /\ freeze' = FALSE
         /\ show_detail' = TRUE
    /\ pc' = "speed"
    /\ UNCHANGED << attractors, k1, gates, outs, oled, now, steps, ci, hvars,
                    nev, hist >>

\* -------------------------------------------------------------------- main
\* update_speed with the second segment measured from 0 instead of from noon
update_speed_from_zero(val) ==
    LET low == 1000
        mid == 100
        high == 10
    IN  IF val = 0 THEN low * PU
        ELSE IF val < 50 THEN low * PU - ((low - mid) * PU * val) \div 50
        ELSE mid * PU - ((mid - high) * PU * val) \div 50

\* update_speed: the period (in PU-ths of a ms) for knob reading val
update_speed(val) ==
    LET low == 1000
        mid == 100
        high == 10
    IN  IF val = 0 THEN low * PU
        ELSE IF val < 50 THEN low * PU - ((low - mid) * PU * val) \div 50
        ELSE mid * PU - ((mid - high) * PU * (val - 50)) \div 50

\* update_threshold: the threshold for the value k2.read_position(steps=41)
\* returned
update_threshold(val) == val

\* self.update_speed(), k1.read_position() returning a value of K
UpdateSpeed(K) ==
    /\ pc = "speed" /\ hpc = "idle"
    /\ \E val \in K : k1' = val /\ period' = update_speed(val)
    /\ pc' = "threshold"
    /\ UNCHANGED << attractors, ctl, checkpoint, threshold, gates, outs, oled,
                    now, steps, ci, hvars, nev, hist >>

\* update_threshold also re-evaluating gate5 and gate6 against the new
\* threshold and writing them out at once
UpdateThreshold_regating(K) ==
    /\ pc = "threshold" /\ hpc = "idle"
    /\ \E val \in K :
         /\ threshold' = val
         /\ calm' = IF threshold' = threshold THEN calm ELSE 0
    /\ pc' = "check"
    /\ LET att == attractors[a]
           sx == x_scaled(att)
           sy == y_scaled(att)
           sz == z_scaled(att)
       IN  IF Raises(att)
           THEN UNCHANGED << gates, outs >>
           ELSE /\ gate5' = (Abs(sy + sz - 2 * sx) > threshold' * FP)
                /\ gate6' = (Abs(sz + sx - 2 * sy) > threshold' * FP)
                /\ cv5' = gate5' /\ cv6' = gate6'
                /\ UNCHANGED << gate4, cv1, cv2, cv3, cv4 >>
    /\ UNCHANGED << attractors, ctl, checkpoint, period, k1, oled,
                    now, steps, ci, hvars, nev, stepped, readFrom, fstate, fz, taken >>

\* self.update_threshold(), k2.read_position(steps=41) returning a value of K
UpdateThreshold(K) ==
    /\ pc = "threshold" /\ hpc = "idle"
    /\ \E val \in K :
         /\ threshold' = update_threshold(val)
         /\ calm' = IF threshold' = threshold THEN calm ELSE 0
    /\ pc' = "check"
    /\ UNCHANGED << attractors, ctl, checkpoint, period, k1, gates, outs, oled,
                    now, steps, ci, hvars, nev, stepped, readFrom, fstate, fz, taken >>

\* ticks_ms(): the clock has moved on by d since it was last read
ClockReads(d) == d \in ClockDeltas /\ now + d <= MaxTime /\ now' = now + d

\* the if statement of main with >= for >
Due_at_period(t, chk, per) == (t - chk) * PU >= per

\* the condition of the if statement of main, at clock reading t:
\* ticks_diff(ticks_ms(), self.checkpoint) > self.period
Due(t, chk, per) == (t - chk) * PU > per

\* if ticks_diff(ticks_ms(), self.checkpoint) > self.period: self.update()
CheckAt(D) ==
    /\ pc = "check" /\ hpc = "idle"
    /\ \E d \in D : ClockReads(d)
    /\ pc' = IF Due(now', checkpoint, period) THEN "values" ELSE "speed"
    /\ UNCHANGED << attractors, ctl, checkpoint, knobs, gates, outs, oled,
                    steps, ci, hvars, nev, hist >>

Check == CheckAt(ClockDeltas)

\* update_values that ignores self.freeze
update_values_always(att, frozen) == step(att)
\* update_values that steps twice
update_values_twice(att, frozen) == IF ~frozen THEN step(step(att)) ELSE att

\* update_values: the active model after the call
update_values(att, frozen) == IF ~frozen THEN step(att) ELSE att

\* update_values stepping every model of the list, not only self.a
UpdateValues_all ==
    /\ pc = "values" /\ hpc = "idle"
    /\ attractors' = [ i \in Models |-> update_values(attractors[i], freeze) ]
    /\ stepped' = IF freeze THEN NoModel ELSE a
    /\ readFrom' = {}
    /\ calm' = Min(calm + 1, 2)
    /\ fstate' = IF ~freeze /\ fstate = "thawed" THEN "resumed" ELSE fstate
    /\ fz' = IF ~freeze /\ fstate = "thawed" THEN << >> ELSE fz
    /\ taken' = IF freeze THEN taken ELSE [ taken EXCEPT ![a] = @ + 1 ]
    /\ pc' = "cv1"
    /\ UNCHANGED << ctl, checkpoint, knobs, gates, outs, oled, now, steps, ci,
                    hvars, nev >>

\* self.update_values(), the first statement of update
UpdateValues ==
    /\ pc = "values" /\ hpc = "idle"
    /\ attractors' = [ attractors EXCEPT ![a] = update_values(@, freeze) ]
    /\ stepped' = IF freeze THEN NoModel ELSE a
    /\ readFrom' = {}
    /\ calm' = Min(calm + 1, 2)
    /\ fstate' = IF ~freeze /\ fstate = "thawed" THEN "resumed" ELSE fstate
    /\ fz' = IF ~freeze /\ fstate = "thawed" THEN << >> ELSE fz
    /\ taken' = IF freeze THEN taken ELSE [ taken EXCEPT ![a] = @ + 1 ]
    /\ pc' = "cv1"
    /\ UNCHANGED << ctl, checkpoint, knobs, gates, outs, oled, now, steps, ci,
                    hvars, nev >>

\* (self.range * s) / 100
voltage(rng, s) == (rng * s) \div 100
\* int(self.a.x_scaled()) % 2 == 0: the scaled value rounded towards zero
gate4_of_truncated(att) ==
    LET s == x_scaled(att)
        whole == IF s >= 0 THEN s \div FP ELSE 0 - ((0 - s) \div FP)
    IN  whole % 2 = 0

\* floor(self.a.x_scaled()) % 2 == 0
gate4_of(att) == floor(x_scaled(att)) % 2 = 0
\* fabs(y + z - 2*x) > self.threshold, on the scaled values
gate5_of(att, thr) ==
    Abs(y_scaled(att) + z_scaled(att) - 2 * x_scaled(att)) > thr * FP
\* fabs(z + x - 2*y) > self.threshold, on the scaled values
gate6_of(att, thr) ==
    Abs(z_scaled(att) + x_scaled(att) - 2 * y_scaled(att)) > thr * FP

\* a statement of update that reads the scaled coordinates of self.a: it
\* raises ZeroDivisionError (and main ends) when a range it divides by is 0
Reads(here, raises, next) ==
    /\ pc = here /\ hpc = "idle"
    /\ pc' = IF raises THEN "ZeroDivisionError" ELSE next
    /\ readFrom' = IF raises THEN readFrom ELSE readFrom \cup {a}
    /\ UNCHANGED << attractors, ctl, checkpoint, knobs, oled, now, steps, ci,
                    hvars, nev, stepped, calm, fstate, fz, taken >>

\* cv1.voltage((self.range * self.a.x_scaled()) / 100)
Cv1 ==
    LET raises == attractors[a].x_range = 0
    IN  /\ Reads("cv1", raises, "cv2")
        /\ cv1' = IF raises THEN cv1 ELSE voltage(range, x_scaled(attractors[a]))
        /\ UNCHANGED << cv2, cv3, cv4, cv5, cv6, gates >>

\* cv2.voltage((self.range * self.a.y_scaled()) / 100)
Cv2 ==
    LET raises == attractors[a].y_range = 0
    IN  /\ Reads("cv2", raises, "cv3")
        /\ cv2' = IF raises THEN cv2 ELSE voltage(range, y_scaled(attractors[a]))
        /\ UNCHANGED << cv1, cv3, cv4, cv5, cv6, gates >>

\* cv3.voltage((self.range * self.a.z_scaled()) / 100)
Cv3 ==
    LET raises == attractors[a].z_range = 0
    IN  /\ Reads("cv3", raises, "gate4")
        /\ cv3' = IF raises THEN cv3 ELSE voltage(range, z_scaled(attractors[a]))
        /\ UNCHANGED << cv1, cv2, cv4, cv5, cv6, gates >>

\* self.gate4 = floor(self.a.x_scaled()) % 2 == 0
Gate4 ==
    LET raises == attractors[a].x_range = 0
    IN  /\ Reads("gate4", raises, "gate5")
        /\ gate4' = IF raises THEN gate4 ELSE gate4_of(attractors[a])
        /\ UNCHANGED << outs, gate5, gate6 >>

\* self.gate5 = fabs(...) > self.threshold
Gate5 ==
    LET raises == Raises(attractors[a])
    IN  /\ Reads("gate5", raises, "gate6")
        /\ gate5' = IF raises THEN gate5 ELSE gate5_of(attractors[a], threshold)
        /\ UNCHANGED << outs, gate4, gate6 >>

\* self.gate6 = fabs(...) > self.threshold
Gate6 ==
    LET raises == Raises(attractors[a])
    IN  /\ Reads("gate6", raises, "cv4")
        /\ gate6' = IF raises THEN gate6 ELSE gate6_of(attractors[a], threshold)
        /\ UNCHANGED << outs, gate4, gate5 >>

\* a statement of update that only writes a gate output
Writes(here, next) ==
    /\ pc = here /\ hpc = "idle"
    /\ pc' = next
    /\ UNCHANGED << attractors, ctl, checkpoint, knobs, gates, cv1, cv2, cv3,
                    oled, now, steps, ci, hvars, nev, hist >>

\* cv4.value(self.gate4)
Cv4 == Writes("cv4", "cv5") /\ cv4' = gate4 /\ UNCHANGED << cv5, cv6 >>
\* cv5.value(self.gate5)
Cv5 == Writes("cv5", "cv6") /\ cv5' = gate5 /\ UNCHANGED << cv4, cv6 >>
\* cv6.value(self.gate6)
Cv6 == Writes("cv6", "checkpoint") /\ cv6' = gate6 /\ UNCHANGED << cv4, cv5 >>

\* self.checkpoint = ticks_ms()
Checkpoint ==
    /\ pc = "checkpoint" /\ hpc = "idle"
    /\ \E d \in ClockDeltas : ClockReads(d)
    /\ checkpoint' = now'
    /\ pc' = "screen"
    /\ UNCHANGED << attractors, ctl, knobs, gates, outs, oled, steps, ci,
                    hvars, nev, hist >>

\* self.update_screen(), the last statement of update
UpdateScreen ==
    /\ pc = "screen" /\ hpc = "idle"
    /\ oled' = << "status", attractors[a].name, freeze, show_detail >>
    /\ stepped' = NoModel
    /\ readFrom' = {}
    /\ pc' = "speed"
    /\ UNCHANGED << attractors, ctl, checkpoint, knobs, gates, outs, now, steps,
                    ci, hvars, nev, calm, fstate, fz, taken >>

\* ---------------------------------------------------------------- handlers
\* An edge handler is entered between two statements of the main thread and
\* runs to its end before the main thread, or another handler, goes on.

\* the handlers' test with >= for >
is_long_press_at_300(d) == d >= LONG_PRESS
\* the next index without the wrap-around
next_attractor_nowrap(i) == i + 1

\* ticks_diff(ticks_ms(), b.last_pressed()) > 300
is_long_press(d) == d > LONG_PRESS

\* (self.selected_attractor + 1) % len(self.attractors)
next_attractor(i) == (i + 1) % NumAttractors

\* b1 released after d ms: the handler's if statement
B1Pressed(d) ==
    /\ Running /\ hpc = "idle"
    /\ hd' = d
    /\ hpc' = IF is_long_press(d) THEN "b1_select" ELSE "b1_decrement"
    /\ UNCHANGED rc
    /\ calm' = 0
    /\ UNCHANGED << attractors, ctl, checkpoint, knobs, gates, outs, oled, now,
                    steps, pc, ci, stepped, readFrom, fstate, fz, taken >>

\* self.selected_attractor = (self.selected_attractor + 1) % len(...)
B1Select ==
    /\ hpc = "b1_select"
    /\ selected_attractor' = next_attractor(selected_attractor)
    /\ hpc' = "b1_activate"
    /\ UNCHANGED rc
    /\ UNCHANGED << attractors, a, range, freeze, show_detail, checkpoint,
                    knobs, gates, outs, oled, now, steps, pc, ci, hd, nev, hist >>

\* the long press branch of b1Pressed without its rebinding of self.a
B1Activate_skipped ==
    /\ hpc = "b1_activate"
    /\ hpc' = "idle" /\ hd' = 0
    /\ UNCHANGED rc
    /\ UNCHANGED << attractors, selected_attractor, a, range, freeze, show_detail,
                    checkpoint, knobs, gates, outs, oled, now, steps, pc, ci,
                    nev, hist >>

\* self.a = self.attractors[self.selected_attractor]
B1Activate ==
    /\ hpc = "b1_activate"
    /\ a' = selected_attractor
    /\ hpc' = "idle" /\ hd' = 0
    /\ UNCHANGED rc
    /\ UNCHANGED << attractors, selected_attractor, range, freeze, show_detail,
                    checkpoint, knobs, gates, outs, oled, now, steps, pc, ci,
                    nev, hist >>

\* a statement of a handler that assigns self.range
SetsRange(here, next, value) ==
    /\ hpc = here
    /\ range' = value
    /\ hpc' = next /\ hd' = IF next = "idle" THEN 0 ELSE hd
    /\ UNCHANGED rc
    /\ UNCHANGED << attractors, selected_attractor, a, freeze, show_detail,
                    checkpoint, knobs, gates, outs, oled, now, steps, pc, ci,
                    nev, hist >>

\* b1Pressed without its if self.range < 1
clamp_low_missing(r) == r

\* if self.range < 1: self.range = 1
clamp_low(r) == IF r < 1 THEN 1 ELSE r
\* if self.range > MAX_OUTPUT: self.range = MAX_OUTPUT
clamp_high(r) == IF r > MAX_OUTPUT THEN MAX_OUTPUT ELSE r

\* self.range -= 1
B1Decrement == SetsRange("b1_decrement", "b1_clamp", range - 1)
B1Clamp == SetsRange("b1_clamp", "idle", clamp_low(range))

\* b2 released after d ms: the handler's if statement
B2Pressed(d) ==
    /\ Running /\ hpc = "idle"
    /\ hd' = d
    /\ hpc' = IF is_long_press(d) THEN "b2_toggle" ELSE "b2_increment"
    /\ UNCHANGED rc
    /\ calm' = 0
    /\ UNCHANGED << attractors, ctl, checkpoint, knobs, gates, outs, oled, now,
                    steps, pc, ci, stepped, readFrom, fstate, fz, taken >>

\* self.show_detail = not self.show_detail
B2Toggle ==
    /\ hpc = "b2_toggle"
    /\ show_detail' = ~show_detail
    /\ hpc' = "idle" /\ hd' = 0
    /\ UNCHANGED rc
    /\ UNCHANGED << attractors, selected_attractor, a, range, freeze,
                    checkpoint, knobs, gates, outs, oled, now, steps, pc, ci,
                    nev, hist >>

\* self.range += 1
B2Increment == SetsRange("b2_increment", "b2_clamp", range + 1)
B2Clamp == SetsRange("b2_clamp", "idle", clamp_high(range))

\* dinTrigger: self.freeze = True
DinTrigger ==
    /\ Running /\ hpc = "idle"
    /\ freeze' = TRUE
    /\ fstate' = "frozen"
    /\ fz' = AllCoords(attractors)
    /\ UNCHANGED << attractors, selected_attractor, a, range, show_detail,
                    checkpoint, knobs, gates, outs, oled, now, steps, pc, ci,
                    hvars, stepped, readFrom, calm, taken >>

\* dinTriggerEnd: self.freeze = False
DinTriggerEnd ==
    /\ Running /\ hpc = "idle"
    /\ freeze' = FALSE
    /\ fstate' = IF fstate = "frozen" THEN "thawed" ELSE fstate
    /\ UNCHANGED << attractors, selected_attractor, a, range, show_detail,
                    checkpoint, knobs, gates, outs, oled, now, steps, pc, ci,
                    hvars, stepped, readFrom, calm, fz, taken >>

\* ------------------------------------------------------------ whole program
\* one more edge is delivered
Edge == nev < MaxEvents /\ nev' = nev + 1

Next ==
    \/ InitialiseMessage
    \/ EstimateRanges
    \/ Construct
    \/ UpdateSpeed(K1Values)
    \/ UpdateThreshold(K2Values)
    \/ Check
    \/ UpdateValues
    \/ Cv1 \/ Cv2 \/ Cv3
    \/ Gate4 \/ Gate5 \/ Gate6
    \/ Cv4 \/ Cv5 \/ Cv6
    \/ Checkpoint
    \/ UpdateScreen
    \/ \E d \in PressDurations : Edge /\ B1Pressed(d)
    \/ B1Select
    \/ B1Activate
    \/ B1Decrement
    \/ B1Clamp
    \/ \E d \in PressDurations : Edge /\ B2Pressed(d)
    \/ B2Toggle
    \/ B2Increment
    \/ B2Clamp
    \/ Edge /\ DinTrigger
    \/ Edge /\ DinTriggerEnd

Spec == Init /\ [][Next]_vars

\* --------------------------------------------- the program once constructed
\* the state __init__ leaves, with model i chosen
InitRunning ==
    /\ attractors = [ i \in Models |-> estimate_ranges(get_attractors[i], EstimateSteps) ]
    /\ steps = EstimateSteps
    /\ \E i \in Models : Constructed(i)
    /\ gate4 = FALSE /\ gate5 = FALSE /\ gate6 = FALSE
    /\ cv1 = 0 /\ cv2 = 0 /\ cv3 = 0
    /\ cv4 = FALSE /\ cv5 = FALSE /\ cv6 = FALSE
    /\ oled = << "Done" >>
    /\ k1 = NoModel /\ now = 0
    /\ pc = "speed" /\ ci = NumAttractors
    /\ hpc = "idle" /\ hd = 0 /\ nev = 0 /\ rc = NoRace
    /\ stepped = NoModel /\ readFrom = {} /\ calm = 0
    /\ fstate = "run" /\ fz = << >> /\ taken = [ i \in Models |-> 0 ]

\* any sequence of button releases, the main thread standing still
ButtonsNext ==
    \/ \E d \in PressDurations : B1Pressed(d) /\ UNCHANGED nev
    \/ B1Select
    \/ B1Activate
    \/ B1Decrement
    \/ B1Clamp
    \/ \E d \in PressDurations : B2Pressed(d) /\ UNCHANGED nev
    \/ B2Toggle
    \/ B2Increment
    \/ B2Clamp

SpecButtons == InitRunning /\ [][ButtonsNext]_vars

\* the sampling half of the main loop, on raw knob readings; the clock stands
\* still, so the if statement of main keeps skipping update
KnobNext ==
    \/ UpdateSpeed(K1Raw)
    \/ UpdateThreshold(K2Raw)
    \/ CheckAt({0})

SpecKnob == InitRunning /\ [][KnobNext]_vars

\* the program on models constructed at any of PointsOf, calibrated with any
\* iteration count up to EstimateSteps, and no edge delivered
InitCal ==
    \E p0 \in PointsOf(0), p1 \in PointsOf(1), n \in 0 .. EstimateSteps :
        StartWith([ i \in Models |->
                      CASE i = 0 -> Lorenz(p0)
                        [] i = 1 -> PanXuZhou(p1)
                        [] OTHER -> get_attractors[i] ], n)

CalNext ==
    \/ InitialiseMessage
    \/ EstimateRanges
    \/ Construct
    \/ UpdateSpeed(K1Values)
    \/ UpdateThreshold(K2Values)
    \/ Check
    \/ UpdateValues
    \/ Cv1 \/ Cv2 \/ Cv3
    \/ Gate4 \/ Gate5 \/ Gate6
    \/ Cv4 \/ Cv5 \/ Cv6
    \/ Checkpoint
    \/ UpdateScreen

SpecCal == InitCal /\ [][CalNext]_vars

\* ------------------------------------- handlers in contexts of their own
\* The release handlers of b1 and b2 each run in a context of their own:
\* their statements interleave with each other's and with those of the main
\* loop.  Every release is of a short press.
BothIdle == rc.b1 = "idle" /\ rc.b2 = "idle"

\* the handler of button b is entered and takes its else branch
RacePressed(b, first) ==
    /\ Running /\ hpc = "idle"
    /\ rc[b] = "idle" /\ (BothIdle \/ b \notin rc.ran)
    /\ rc' = [ rc EXCEPT ![b] = first,
                         !.base = IF BothIdle THEN range ELSE @,
                         !.ran = IF BothIdle THEN {b} ELSE @ \cup {b} ]
    /\ UNCHANGED << attractors, ctl, checkpoint, knobs, gates, outs, oled, now,
                    steps, pc, ci, hpc, hd, hist >>

\* a statement of the handler of button b that assigns self.range
RaceSets(b, here, next, value) ==
    /\ rc[b] = here
    /\ range' = value
    /\ rc' = [ rc EXCEPT ![b] = next ]
    /\ UNCHANGED << attractors, selected_attractor, a, freeze, show_detail,
                    checkpoint, knobs, gates, outs, oled, now, steps, pc, ci,
                    hpc, hd, nev, hist >>

RaceB1Pressed == RacePressed("b1", "decrement")
RaceB1Decrement == RaceSets("b1", "decrement", "clamp", range - 1)
RaceB1Clamp == RaceSets("b1", "clamp", "idle", clamp_low(range))
RaceB2Pressed == RacePressed("b2", "increment")
RaceB2Increment == RaceSets("b2", "increment", "clamp", range + 1)
RaceB2Clamp == RaceSets("b2", "clamp", "idle", clamp_high(range))

RaceNext ==
    \/ UpdateSpeed({100})
    \/ UpdateThreshold({20})
    \/ CheckAt({5})
    \/ UpdateValues
    \/ Cv1 \/ Cv2 \/ Cv3
    \/ Gate4 \/ Gate5 \/ Gate6
    \/ Cv4 \/ Cv5 \/ Cv6
    \/ Checkpoint
    \/ UpdateScreen
    \/ Edge /\ RaceB1Pressed
    \/ RaceB1Decrement
    \/ RaceB1Clamp
    \/ Edge /\ RaceB2Pressed
    \/ RaceB2Increment
    \/ RaceB2Clamp

SpecRace == InitRunning /\ [][RaceNext]_vars

\* ------------------------------------------------------- one step of a model
\* coordinates a caller may construct a model at
Coordinates == { Real(7 * k, 10) + Real(1, 20) : k \in (0 - MaxCoord) .. MaxCoord }
StartPoints == { << u, v, w >> : u \in Coordinates, v \in Coordinates, w \in Coordinates }

\* the program on the four models constructed at one point p and calibrated
\* with any iteration count up to EstimateSteps, no edge delivered
InitStep ==
    \E p \in StartPoints, n \in 0 .. EstimateSteps :
        StartWith([ i \in Models |->
                      CASE i = 0 -> Lorenz(p)
                        [] i = 1 -> PanXuZhou(p)
                        [] i = 2 -> Rikitake(p)
                        [] OTHER -> Rossler(p) ], n)

\* knob 1 fully clockwise and the clock 5 ms further at every look of main
StepNext ==
    \/ InitialiseMessage
    \/ EstimateRanges
    \/ Construct
    \/ UpdateSpeed({100})
    \/ UpdateThreshold(K2Values)
    \/ CheckAt({5})
    \/ UpdateValues
    \/ Cv1 \/ Cv2 \/ Cv3
    \/ Gate4 \/ Gate5 \/ Gate6
    \/ Cv4 \/ Cv5 \/ Cv6
    \/ Checkpoint
    \/ UpdateScreen

SpecStep == InitStep /\ [][StepNext]_vars

\* ------------------------------------------------------------------ claims
WithCoords(att, c) == [ att EXCEPT !.x = c[1], !.y = c[2], !.z = c[3] ]
ShortPcs == {"b1_decrement", "b1_clamp", "b2_increment", "b2_clamp"}
LongPcs == {"b1_select", "b1_activate", "b2_toggle"}

\* C1: whenever a button handler has completed, range is in 1 .. MAX_OUTPUT; a
\* decrement at 1 (range 0 when the clamp runs) ends at 1 and an increment at
\* MAX_OUTPUT ends at MAX_OUTPUT.
C1_RangeClamped ==
    [][ /\ (hpc' = "idle" => range' \in 1 .. MAX_OUTPUT)
        /\ (hpc = "b1_decrement" /\ range = 1 => range' = 0 /\ hpc' = "b1_clamp")
        /\ (hpc = "b1_clamp" /\ range = 0 => range' = 1 /\ hpc' = "idle")
        /\ (hpc = "b2_increment" /\ range = MAX_OUTPUT
              => range' = MAX_OUTPUT + 1 /\ hpc' = "b2_clamp")
        /\ (hpc = "b2_clamp" /\ range = MAX_OUTPUT + 1
              => range' = MAX_OUTPUT /\ hpc' = "idle") ]_vars
\* a short press on button 1 at range 1 has decremented and is about to clamp
C1_Witness == hpc = "b1_clamp" /\ range = 0 /\ hd <= LONG_PRESS

\* C2: a tick that finds self.freeze set steps no model, and when no button
\* was released and the threshold did not change since the previous tick
\* began, a tick that did not step writes the values the previous tick wrote
\* to all six outputs and gate attributes; it still goes on to its output
\* statements, sets checkpoint to the clock and redraws the display.
C2_FrozenTicks ==
    [][ /\ (pc = "values" /\ pc' # "values" /\ freeze
              => attractors' = attractors /\ stepped' = NoModel /\ pc' = "cv1")
        /\ (stepped = NoModel /\ calm = 2 => outs' = outs /\ gates' = gates)
        /\ (pc = "checkpoint" /\ pc' # "checkpoint"
              => checkpoint' = now' /\ pc' = "screen")
        /\ (pc = "screen" /\ pc' # "screen"
              => oled' = << "status", attractors[a].name, freeze, show_detail >>)
      ]_vars
\* the second of two ticks with nothing changed between them, frozen, has
\* written its outputs and is about to redraw
C2_Witness ==
    pc = "screen" /\ freeze /\ stepped = NoModel /\ calm = 2 /\ checkpoint = now

\* C3: the first step taken after a rising and then a falling edge moves the
\* active model by exactly one step() from the coordinates it had at the
\* rising edge and leaves every other model at the coordinates it had then.
C3_ResumeFromFrozenPoint ==
    [][ pc = "values" /\ pc' # "values" /\ fstate = "thawed"
          => /\ ~freeze /\ stepped' = a
             /\ \A i \in Models :
                  Coords(attractors'[i]) =
                    IF i = a THEN Coords(step(WithCoords(attractors[i], fz[i])))
                    ELSE fz[i] ]_vars
\* the tick after the falling edge has stepped the active model, the tick
\* before it having drawn FREEZE
C3_Witness ==
    /\ fstate = "resumed" /\ pc = "cv1" /\ stepped = a /\ ~freeze
    /\ Len(oled) = 4 /\ oled[3]

\* C4: when the six outputs of a tick have been computed, all were computed
\* from the coordinates of one model, the one the tick stepped if it stepped.
C4_OneSnapshot ==
    pc = "cv4" =>
        /\ Cardinality(readFrom) = 1
        /\ (stepped # NoModel => readFrom = {stepped})

\* C5: a long press on button 1 moves the selected index to (index + 1) mod
\* the number of models and makes that model the active one before the
\* handler ends; no step of a button handler changes any model's coordinates
\* or bounds; pressing as often as there are models leads back to the index.
RECURSIVE Presses(_, _)
Presses(i, n) == IF n = 0 THEN i ELSE Presses(next_attractor(i), n - 1)
C5_SelectNext ==
    [][ /\ (hpc = "b1_select"
              => /\ selected_attractor' = (selected_attractor + 1) % NumAttractors
                 /\ hpc' = "b1_activate")
    /\ UNCHANGED rc
        /\ (hpc = "b1_activate"
              => /\ a' = selected_attractor /\ hpc' = "idle"
                 /\ selected_attractor' = selected_attractor)
        /\ (hpc # "idle" \/ hpc' # "idle" => attractors' = attractors)
        /\ (hpc' = "idle" => Presses(selected_attractor', NumAttractors)
                               = selected_attractor')
      ]_vars
\* a long press has wrapped the index from the last model to the first
C5_Witness ==
    hpc = "b1_activate" /\ selected_attractor = 0 /\ a = NumAttractors - 1

\* C6 as claimed: a release is handled as a short press when d < 300 and as a
\* long press when d >= 300.
C6_LongFrom300 ==
    /\ (hpc \in ShortPcs => hd < LONG_PRESS)
    /\ (hpc \in LongPcs => hd >= LONG_PRESS)
\* C6 as amended: a release is handled as a short press (button 1: range - 1,
\* button 2: range + 1) when d <= 300 and as a long press (button 1: next
\* model, button 2: toggle show_detail) when d > 300.
C6_LongAbove300 ==
    [][ /\ (hpc = "idle" /\ hpc' # "idle"
              => IF hd' > LONG_PRESS THEN hpc' \in {"b1_select", "b2_toggle"}
                 ELSE hpc' \in {"b1_decrement", "b2_increment"})
        /\ (hpc = "b1_decrement" => range' = range - 1)
        /\ (hpc = "b2_increment" => range' = range + 1)
        /\ (hpc = "b1_select"
              => selected_attractor' = (selected_attractor + 1) % NumAttractors)
        /\ (hpc = "b2_toggle" => show_detail' = ~show_detail) ]_vars
\* a press of exactly 300 ms is being handled as a short press
C6_Witness == hpc = "b1_decrement" /\ hd = LONG_PRESS

\* C7 as claimed: an iteration performs a tick iff now - checkpoint >= period.
C7_TickAtPeriod ==
    [][ pc = "check" /\ pc' # "check"
          => (pc' = "values" <=> (now' - checkpoint) * PU >= period) ]_vars
\* C7 as amended: an iteration performs a tick iff now - checkpoint > period,
\* and every tick sets checkpoint to the clock.
C7_TickAfterPeriod ==
    [][ /\ (pc = "check" /\ pc' # "check"
              => /\ pc' = "values" <=> (now' - checkpoint) * PU > period
                 /\ pc' = "speed" <=> (now' - checkpoint) * PU <= period)
        /\ (pc = "checkpoint" /\ pc' # "checkpoint" => checkpoint' = now')
      ]_vars
\* an iteration found exactly one period elapsed and went round without a tick
C7_Witness ==
    pc = "speed" /\ now > checkpoint /\ (now - checkpoint) * PU = period

\* C8: once sampled at a reading in 0 .. 100 the period is 1000 at 0, 100 at
\* 50, 10 at 100, lies on the straight line between the breakpoints of its
\* segment, and no smaller reading maps below it, no larger one above it.
C8_SpeedMapping ==
    pc = "threshold" /\ k1 \in 0 .. 100 =>
        /\ (k1 = 0 => period = 1000 * PU)
        /\ (k1 = 50 => period = 100 * PU)
        /\ (k1 = 100 => period = 10 * PU)
        /\ (k1 <= 50 => 50 * period = 50 * 1000 * PU - k1 * (1000 - 100) * PU)
        /\ (k1 >= 50 => 50 * period = 50 * 100 * PU - (k1 - 50) * (100 - 10) * PU)
        /\ \A v \in 0 .. 100 :
             /\ (v < k1 => update_speed(v) >= period)
             /\ (v > k1 => update_speed(v) <= period)
\* the knob was sampled at noon, where the two segments meet
C8_Witness == pc = "threshold" /\ k1 = 50 /\ period = 100 * PU

\* C9: a tick on a model calibrated to a zero range on some axis does not
\* raise a division error, and computes with the default range on that axis.
C9_DegenerateFallback ==
    /\ pc # "ZeroDivisionError"
    /\ (pc \in {"cv2", "cv3", "gate4", "gate5", "gate6", "cv4"}
          => \/ attractors[a].x_max # attractors[a].x_min
             \/ attractors[a].x_range = Real(100, 1))

\* C10: whatever the knobs read, the sampled period lies in [10, 1000] ms and
\* the sampled threshold in 0 .. 40.
C10_ReadingsClamped ==
    /\ (pc \in {"threshold", "check"}
          => period >= 10 * PU /\ period <= 1000 * PU)
    /\ (pc = "check" => threshold \in 0 .. (THRESHOLD_STEPS - 1))

\* what estimate_ranges leaves in a model besides its coordinates
Bounds(att) ==
    << att.x_min, att.x_max, att.x_range, att.y_min, att.y_max, att.y_range,
       att.z_min, att.z_max, att.z_range >>
AllBounds(atts) == [ i \in Models |-> Bounds(atts[i]) ]

\* __init__ has not reached the end of its calibration loop and its selection
Calibrating == pc \in {"cal_msg", "cal_est", "select"}

\* C11: startup calibrates every model exactly once, in list order, before
\* Running begins: while __init__ runs, the models before the loop index are
\* calibrated and the others are as constructed, no voltage or gate has been
\* written and no edge has been handled; a calibration is the loop's step on
\* the model at the loop index, which then moves on by one; and once Running
\* is entered it is never left for the calibration loop and no model's
\* minima, maxima or ranges change again
C11_CalibratedOnceBeforeRunning ==
    [][ /\ Calibrating =>
              /\ outs = << 0, 0, 0, FALSE, FALSE, FALSE >>
              /\ gates = << FALSE, FALSE, FALSE >>
              /\ nev = 0 /\ hpc = "idle" /\ ~freeze
              /\ \A i \in Models :
                    IF i < ci
                    THEN attractors[i] = estimate_ranges(get_attractors[i], steps)
                    ELSE attractors[i] = get_attractors[i]
        /\ AllBounds(attractors') # AllBounds(attractors) =>
              /\ pc = "cal_est" /\ ci \in Models /\ ci' = ci + 1
              /\ \A i \in Models \ {ci} : attractors'[i] = attractors[i]
        /\ (pc = "cal_est" /\ pc' # pc) =>
              Bounds(attractors'[ci]) # Bounds(attractors[ci])
        /\ ~Calibrating =>
              /\ ~Calibrating'
              /\ ci' = ci /\ ci = NumAttractors
              /\ AllBounds(attractors') = AllBounds(attractors) ]_vars

\* Running has just been entered, every model calibrated and nothing written
C11_Witness ==
    /\ pc = "speed" /\ k1 = NoModel /\ ci = NumAttractors
    /\ selected_attractor \in Models
    /\ outs = << 0, 0, 0, FALSE, FALSE, FALSE >>
    /\ \A i \in Models :
          /\ attractors[i] = estimate_ranges(get_attractors[i], steps)
          /\ Bounds(attractors[i]) # Bounds(get_attractors[i])

\* the model after n calls of step()
RECURSIVE Orbit(_, _)
Orbit(att, n) == IF n = 0 THEN att ELSE Orbit(step(att), n - 1)

\* the model back at its initial point
AtStart(att) == WithCoords(att, att.initial_state)

\* C12: after estimate_ranges, with any iteration count, a model that has
\* not stepped since is at its initial point exactly, and the minima and
\* maxima it keeps enclose, on each axis, the initial point and every point
\* the run visited; the ranges are the differences of the two
C12_ResetKeepsBounds ==
    \A i \in Models :
        i < ci =>
          LET att == attractors[i]
          IN  /\ taken[i] = 0 => Coords(att) = att.initial_state
              /\ \A k \in 0 .. steps :
                    LET v == Orbit(AtStart(att), k)
                    IN  /\ att.x_min <= v.x /\ v.x <= att.x_max
                        /\ att.y_min <= v.y /\ v.y <= att.y_max
                        /\ att.z_min <= v.z /\ v.z <= att.z_max
              /\ att.x_range = att.x_max - att.x_min
              /\ att.y_range = att.y_max - att.y_min
              /\ att.z_range = att.z_max - att.z_min

\* the first model calibrated with the longest run, which left its initial
\* point on every axis, and not stepped since
C12_Witness ==
    /\ Calibrating /\ ci >= 1 /\ steps = EstimateSteps
    /\ LET att == attractors[0]
       IN  /\ Coords(att) = att.initial_state
           /\ Coords(Orbit(att, steps)) # att.initial_state
           /\ att.x_min < att.x_max /\ att.y_min < att.y_max
           /\ att.z_min < att.z_max

\* the right-hand sides of the four systems at (x, y, z)
Derivatives(name, x, y, z) ==
    CASE name = "Lorenz" ->
           << Mul(Real(10, 1), y - x),
              Mul(Real(28, 1), x) - y - Mul(x, z),
              Mul(x, y) - Mul(Real(2667, 1000), z) >>
      [] name = "Pan-Xu-Zhou" ->
           << Mul(Real(10, 1), y - x),
              Mul(Real(16, 1), x) - Mul(x, z),
              Mul(x, y) - Mul(Real(2667, 1000), z) >>
      [] name = "Rossler" ->
           << 0 - (y + z),
              x + Mul(Real(13, 100), y),
              Real(2, 10) + Mul(z, x - Real(65, 10)) >>
      [] name = "Rikitake" ->
           << 0 - Mul(Real(2, 1), x) + Mul(z, y),
              0 - Mul(Real(2, 1), y) + Mul(x, z - Real(5, 1)),
              Real(1, 1) - Mul(x, y) >>

\* C13: a step of any of the four models from any point (x, y, z) leaves
\* x + dt * f_x(x, y, z), y + dt * f_y(x, y, z), z + dt * f_z(x, y, z), the
\* three derivatives being those of the model's system taken at the point
\* before the step
C13_StepFormulas ==
    [][ (pc = "values" /\ pc' = "cv1") =>
          LET att == attractors[a]
              d == Derivatives(att.name, att.x, att.y, att.z)
          IN  /\ attractors'[a].x = att.x + Mul(d[1], att.dt)
              /\ attractors'[a].y = att.y + Mul(d[2], att.dt)
              /\ attractors'[a].z = att.z + Mul(d[3], att.dt) ]_vars

\* a Lorenz model has stepped from a point where the derivative of y taken
\* after the update of x differs from the one taken before it
C13_Witness ==
    /\ pc = "cv1" /\ stepped = a /\ attractors[a].name = "Lorenz"
    /\ taken[a] = 1
    /\ LET p == attractors[a].initial_state
           after == LorenzStep(AtStart(attractors[a]))
       IN  /\ Coords(attractors[a]) = Coords(after)
           /\ after.x # p[1]
           /\ Mul(Real(28, 1), after.x) - Mul(after.x, p[3])
                 # Mul(Real(28, 1), p[1]) - Mul(p[1], p[3])

\* 100 * (v - lo) / rng, the position of v in its calibrated range
Scaled(v, lo, rng) == (100 * (v - lo) * FP) \div rng
Sx == Scaled(attractors[a].x, attractors[a].x_min, attractors[a].x_range)
Sy == Scaled(attractors[a].y, attractors[a].y_min, attractors[a].y_range)
Sz == Scaled(attractors[a].z, attractors[a].z_min, attractors[a].z_range)

\* the main thread moves from one statement of update to the next
Runs(here, next) == pc = here /\ pc' = next

\* C14: in every tick the three voltages written are range * s / 100 for the
\* scaled value s of the axis, gate4 is true exactly when the floor of sx is
\* even (for negative sx too), gate5 exactly when |sy + sz - 2 sx| is strictly
\* above the threshold and gate6 exactly when |sz + sx - 2 sy| is, and cv4,
\* cv5, cv6 are written with the three gates
C14_Outputs ==
    [][ /\ Runs("cv1", "cv2") => cv1' = (range * Sx) \div 100
        /\ Runs("cv2", "cv3") => cv2' = (range * Sy) \div 100
        /\ Runs("cv3", "gate4") => cv3' = (range * Sz) \div 100
        /\ Runs("gate4", "gate5") =>
              gate4' = (Sx % (2 * FP) < FP)
        /\ Runs("gate5", "gate6") =>
              gate5' = (Sy + Sz - 2 * Sx > threshold * FP
                          \/ 2 * Sx - Sy - Sz > threshold * FP)
        /\ Runs("gate6", "cv4") =>
              gate6' = (Sz + Sx - 2 * Sy > threshold * FP
                          \/ 2 * Sy - Sz - Sx > threshold * FP)
        /\ Runs("cv4", "cv5") => cv4' = gate4
        /\ Runs("cv5", "cv6") => cv5' = gate5
        /\ Runs("cv6", "checkpoint") => cv6' = gate6
        /\ pc \in {"cv1", "cv2", "cv3", "gate4", "gate5", "gate6"} =>
              pc' \in {pc, "ZeroDivisionError",
                       CASE pc = "cv1" -> "cv2" [] pc = "cv2" -> "cv3"
                         [] pc = "cv3" -> "gate4" [] pc = "gate4" -> "gate5"
                         [] pc = "gate5" -> "gate6" [] OTHER -> "cv4"} ]_vars

\* gate4 has just been computed from a negative sx that is not a whole number
\* and whose floor is odd while its integer part is even
C14_Witness ==
    /\ pc = "gate5" /\ ~Raises(attractors[a])
    /\ Sx < 0 /\ Sx % FP # 0
    /\ (Sx \div FP) % 2 = 1
    /\ ~gate4
    /\ cv1 = (range * Sx) \div 100 /\ cv1 < 0

\* C15: knob 1 and knob 2 are sampled in every iteration of the main loop, and
\* what they change is the period and the threshold only: a voltage or a gate
\* output changes only at the statement of update that writes it and a gate
\* only at the statement of update that computes it, so a threshold sampled
\* between two ticks leaves gate5, gate6 and cv1 .. cv6 as the last tick wrote
\* them
C15_OutputsOnlyInTick ==
    [][ /\ cv1' # cv1 => Runs("cv1", "cv2")
        /\ cv2' # cv2 => Runs("cv2", "cv3")
        /\ cv3' # cv3 => Runs("cv3", "gate4")
        /\ gate4' # gate4 => Runs("gate4", "gate5")
        /\ gate5' # gate5 => Runs("gate5", "gate6")
        /\ gate6' # gate6 => Runs("gate6", "cv4")
        /\ cv4' # cv4 => Runs("cv4", "cv5")
        /\ cv5' # cv5 => Runs("cv5", "cv6")
        /\ cv6' # cv6 => Runs("cv6", "checkpoint")
        /\ (period' # period \/ k1' # k1) =>
              Runs("speed", "threshold") \/ Runs("select", "speed")
        /\ threshold' # threshold =>
              Runs("threshold", "check") \/ Runs("select", "speed")
        /\ (pc = "speed" /\ pc' # pc) => pc' = "threshold"
        /\ (pc = "threshold" /\ pc' # pc) => pc' = "check"
        /\ (pc = "check" /\ pc' # pc) => pc' \in {"speed", "values"}
        /\ (pc = "screen" /\ pc' # pc) => pc' = "speed" ]_vars

\* between two ticks, no button released since the last one, the threshold
\* sampled is one against which gate5 would come out the other way, and gate5
\* and cv5 are as the last tick left them
C15_Witness ==
    /\ pc = "check" /\ checkpoint > 0 /\ nev = 0 /\ calm = 0
    /\ gate5 # gate5_of(attractors[a], threshold)
    /\ cv5 = gate5

\* self.range after the handlers in ran have run one after the other, in
\* either order, from self.range = base
Sequential(base, ran) ==
    LET after1(r) == clamp_low(r - 1)
        after2(r) == clamp_high(r + 1)
    IN  IF ran = {"b1"} THEN {after1(base)}
        ELSE IF ran = {"b2"} THEN {after2(base)}
        ELSE {after2(after1(base)), after1(after2(base))}

\* no update of self.range is lost: when the last of the handlers that
\* overlapped returns, self.range is what running them one after the other
\* would have left
NoLostUpdate ==
    (~BothIdle /\ BothIdle') => range' \in Sequential(rc.base, rc.ran)

\* a statement of update reads self.range
ReadsRange == Runs("cv1", "cv2") \/ Runs("cv2", "cv3") \/ Runs("cv3", "gate4")

\* C16: with the release handlers of b1 and b2 interleaving statement by
\* statement with each other and with the main loop, no update of range is
\* lost and no tick reads a range outside 1 .. MAX_OUTPUT
C16_RangeRaceFree ==
    [][ /\ NoLostUpdate
        /\ ReadsRange => range \in 1 .. MAX_OUTPUT ]_vars

C16_NoLostUpdate == [][NoLostUpdate]_vars

C18_SelectionValid ==
    (~Calibrating /\ hpc = "idle") =>
        /\ selected_attractor \in Models
        /\ a = selected_attractor

\* a long press of button 1 in the middle of a tick that stepped the last
\* model of the list has wrapped the selection round to the first
C18_Witness ==
    /\ ~Calibrating /\ hpc = "idle" /\ nev >= 1
    /\ stepped = NumAttractors - 1
    /\ selected_attractor = 0 /\ a = 0

\* v lies in lo .. hi
Within(v, lo, hi) == lo <= v /\ v <= hi

\* C19: a model that has taken no more steps in Running than its calibration
\* ran is at the point the calibration run visited after as many steps; so
\* each of its scaled values on an axis of nonzero range lies in 0 .. 100, and
\* a voltage a tick has just written from it lies in 0 .. range
C19_RetraceWithinBounds ==
    \A i \in Models :
        (i < ci /\ taken[i] <= steps) =>
          LET att == attractors[i]
          IN  /\ Coords(att) = Coords(RunSteps(AtStart(att), taken[i]))
              /\ att.x_range # 0 => Within(x_scaled(att), 0, Real(100, 1))
              /\ att.y_range # 0 => Within(y_scaled(att), 0, Real(100, 1))
              /\ att.z_range # 0 => Within(z_scaled(att), 0, Real(100, 1))
              /\ (i = a /\ pc = "cv2") => Within(cv1, 0, range * FP)
              /\ (i = a /\ pc = "cv3") => Within(cv2, 0, range * FP)
              /\ (i = a /\ pc = "gate4") => Within(cv3, 0, range * FP)

\* the active model has taken its N-th step, N >= 2 the iteration count of
\* its calibration, stands at an end of its calibrated range on one axis and
\* inside it on another, and the tick has written the three voltages
C19_Witness ==
    /\ pc = "gate4" /\ steps >= 2 /\ taken[a] = steps
    /\ ~Raises(attractors[a])
    /\ Sx \in {0, Real(100, 1)}
    /\ 0 < Sy /\ Sy < Real(100, 1)
    /\ cv1 = voltage(range, Sx) /\ cv2 > 0 /\ cv2 < range * FP
====
